---- MODULE Spec2Model ----
(***************************************************************************)
(* A model of the EPREM runtime project manager (src/runtime/eprem.py):    *)
(* the JSON run log (RunLog), the path orchestration of a project          *)
(* (_make_paths, _rename_paths, _remove_paths), the lifecycle operations  *)
(* Project.run, Project.mv and Project.rm built from them, and the         *)
(* construction and removal of projects with the registry file.            *)
(*                                                                         *)
(* A path is the sequence of its segments: /p/a/runs/r1 is                 *)
(* <<"p", "a", "runs", "r1">>.  A string stored in the log is a sequence   *)
(* of segments too, so that str(path) and pathlib.Path(str) are the        *)
(* conversions between a path and the log value holding it.                *)
(*                                                                         *)
(* A JSON value is a node [k, s, m]: a string (k = "s", text in s) or an   *)
(* object (k = "m", members in m, a function from keys to nodes).          *)
(***************************************************************************)
EXTENDS Integers, Sequences, FiniteSets, TLC

VARIABLES
    database,   \* the content of the registry file Project.database
    projects,   \* the project roots on disk, each with the attributes it
                \* was created with
    branches,   \* Project._attrs.branches: the tuple of branch names
    dirs,       \* the run directories that exist on disk (paths)
    files,      \* paths that exist on disk as regular files
    log,        \* the content of the log file <root>/<logname>
    last,       \* the call that ended last: operation, arguments, outcome
    pdirs,      \* dirs when that call began
    plog,       \* log when that call began
    frame,      \* the lifecycle call in progress (step semantics only)
    ncalls      \* how many calls have been made on the project

vars == <<database, projects, branches, dirs, files, log, last, pdirs, plog,
         frame, ncalls>>

----------------------------------------------------------------------------
(* Bounds of the model. *)

\* how many distinct run names the callers use
NumRuns == 2

\* how many calls a behaviour makes on the project
MaxCalls == 3

\* how many targets a call of RunLog.rm names
MaxTargets == 2

NamePool == <<"r1", "r2", "r3", "r4">>

RunNames == {NamePool[i] : i \in 1..NumRuns}

\* glob patterns given to Project.rm: a plain name or the wildcard
Patterns == RunNames \cup {"*"}

BranchNames == {"a", "b"}

\* the branch layouts a project is created with: unbranched or two branches
BranchChoices == {<<>>, <<"a", "b">>}

\* the stand-in for Python's None
None == "None"

----------------------------------------------------------------------------
(* JSON values. *)

EmptyMap == [x \in {} |-> x]

Str(s) == [k |-> "s", s |-> s, m |-> EmptyMap]

Map(f) == [k |-> "m", s |-> <<>>, m |-> f]

IsMap(v) == v.k = "m"

\* d[key] = value on a copy of the dict d
Put(d, key, value) ==
    [x \in (DOMAIN d) \cup {key} |-> IF x = key THEN value ELSE d[x]]

\* {k: v for k, v in d.items() if k not in keys}
Without(d, keys) == [x \in (DOMAIN d) \ keys |-> d[x]]

\* d.update(other)
Update(d, other) ==
    [x \in (DOMAIN d) \cup (DOMAIN other) |->
        IF x \in DOMAIN other THEN other[x] ELSE d[x]]

----------------------------------------------------------------------------
(* Paths. *)

\* pathlib.Path.parent
Parent(p) == IF Len(p) = 0 THEN p ELSE SubSeq(p, 1, Len(p) - 1)

\* pathlib.Path.name
Name(p) == IF Len(p) = 0 THEN "" ELSE p[Len(p)]

\* path / segment; joining the empty string changes nothing
Join(p, seg) == IF seg = "" THEN p ELSE Append(p, seg)

\* the project root /p, whose name is "p"
root == <<"p">>

\* _ProjectInit defaults
rundir == "runs"

config == "eprem.cfg"

output == "eprem.log"

logstem == "runs"

\* {key: value}, a one-member dict
Single(key, value) == [x \in {key} |-> value]

\* range of a sequence
Range(seq) == {seq[i] : i \in 1..Len(seq)}

----------------------------------------------------------------------------
(* RunLog.  Every operation reads the whole file (_asdict), computes the    *)
(* new contents and writes them back (dump); an operation that raises has   *)
(* not yet written.  Each operator returns [err, log]: the exception        *)
(* raised ("" for a normal return) and the file contents afterwards.        *)

Ok(l) == [err |-> "", log |-> l]

Raise(e, l) == [err |-> e, log |-> l]

\* RunLog.__init__: dump(common), the keyword arguments given by Project
RunLog_init(common) == common

\* the arguments Project.__init__ passes as `common`
Common == [x \in {"config", "output"} |->
              IF x = "config" THEN Str(<<config>>) ELSE Str(<<output>>)]

\* the sources RunLog.create accepts
NoSource == [t |-> "none", v |-> EmptyMap]

MappingSource(f) == [t |-> "map", v |-> f]

\* a file path, given by what the loader parses out of the file
FileSource(loaded) == [t |-> "file", v |-> loaded]

\* RunLog._read_from_file: a copy of the current contents updated with the
\* parsed file
read_from_file(l, loaded) == Update(l, loaded)

\* RunLog._normalize_source
normalize_source(l, source) ==
    CASE source.t = "none" -> EmptyMap
      [] source.t = "map"  -> source.v
      [] source.t = "file" -> read_from_file(l, source.v)

\* RunLog.create as it would be if it wrote the new entry alone
RunLog_create_alone(l, key, source) ==
    Ok(Single(key, Map(normalize_source(l, source))))

\* RunLog.create(key, source)
RunLog_create(l, key, source) ==
    LET contents == IF source.t = "none" THEN Put(l, key, Map(EmptyMap)) ELSE l
    IN  Ok(Update(contents, Single(key, Map(normalize_source(l, source)))))

\* RunLog.append as it would be if an unknown target were given a record
RunLog_append_creating(l, target, key, metadata) ==
    LET record == IF target \in DOMAIN l THEN l[target] ELSE Map(EmptyMap)
    IN  IF ~IsMap(record)
        THEN Raise("TypeError", l)
        ELSE Ok(Put(l, target, Map(Put(record.m, key, metadata))))

\* RunLog.append(target, key, metadata)
RunLog_append(l, target, key, metadata) ==
    IF target \notin DOMAIN l
    THEN Raise("LogKeyError", l)
    ELSE LET record == l[target]
         IN  IF ~IsMap(record)
             THEN Raise("TypeError", l)
             ELSE Ok(Put(l, target, Map(Put(record.m, key, metadata))))

\* what reading rec['directory'] and building pathlib.Path from it raises
DirectoryErr(rec) ==
    IF ~IsMap(rec) THEN "TypeError"
    ELSE IF "directory" \notin DOMAIN rec.m THEN "KeyError"
    ELSE IF IsMap(rec.m["directory"]) THEN "TypeError"
    ELSE ""

\* {k: v if k != 'directory' else str(directory) for k, v in rec.items()},
\* with directory = pathlib.Path(rec['directory']).parent / target
Redirect(rec, target) ==
    [x \in DOMAIN rec.m |->
        IF x = "directory"
        THEN Str(Join(Parent(rec.m["directory"].s), target))
        ELSE rec.m[x]]

\* what the loop body of RunLog.mv raises for one branch
BranchErr(run, branch) ==
    IF ~IsMap(run) THEN "TypeError"
    ELSE IF branch \notin DOMAIN run.m THEN "KeyError"
    ELSE DirectoryErr(run.m[branch])

\* RunLog.mv as it would be if it kept only the entries of source and
\* target
RunLog_mv_narrow(l, brs, source, target) ==
    IF source \notin DOMAIN l
    THEN Raise("LogKeyError", l)
    ELSE LET run     == l[source]
             updated == Without(l, DOMAIN l \ {target})
         IN  IF Len(brs) = 0
             THEN IF DirectoryErr(run) # ""
                  THEN Raise(DirectoryErr(run), l)
                  ELSE Ok(Put(updated, target, Map(Redirect(run, target))))
             ELSE LET bad == {i \in 1..Len(brs) : BranchErr(run, brs[i]) # ""}
                  IN  IF bad # {}
                      THEN LET first == CHOOSE i \in bad : \A j \in bad : i <= j
                           IN  Raise(BranchErr(run, brs[first]), l)
                      ELSE Ok(Put(updated, target,
                                  Map([b \in Range(brs) |->
                                          Map(Redirect(run.m[b], target))])))

\* RunLog.mv(source, target), in a log whose _branches is brs
RunLog_mv(l, brs, source, target) ==
    IF source \notin DOMAIN l
    THEN Raise("LogKeyError", l)
    ELSE LET run     == l[source]
             updated == Without(l, {source})
         IN  IF Len(brs) = 0
             THEN IF DirectoryErr(run) # ""
                  THEN Raise(DirectoryErr(run), l)
                  ELSE Ok(Put(updated, target, Map(Redirect(run, target))))
             ELSE LET bad == {i \in 1..Len(brs) : BranchErr(run, brs[i]) # ""}
                  IN  IF bad # {}
                      THEN LET first == CHOOSE i \in bad : \A j \in bad : i <= j
                           IN  Raise(BranchErr(run, brs[first]), l)
                      ELSE Ok(Put(updated, target,
                                  Map([b \in Range(brs) |->
                                          Map(Redirect(run.m[b], target))])))

\* a call self.log.mv(*args): the method takes exactly (source, target)
RunLog_mv_call(l, brs, args) ==
    IF Len(args) # 2
    THEN Raise("TypeError", l)
    ELSE RunLog_mv(l, brs, args[1], args[2])

\* the truth value of an optional string argument
Truthy(x) == x # None /\ x # ""

\* RunLog.rm as it would be if the targets were dropped from the top level
\* whatever the branch
RunLog_rm_dropping(l, brs, targets, branch) ==
    IF \E t \in Range(targets) : t \notin DOMAIN l
    THEN Raise("LogKeyError", l)
    ELSE IF branch \notin Range(brs)
    THEN Raise("LogKeyError", l)
    ELSE Ok(Without(l, Range(targets)))

\* RunLog.rm as it would be if each known target were removed before the
\* unknown one is reported
RunLog_rm_partial(l, brs, targets, branch) ==
    LET tset    == Range(targets)
        updated == Without(l, tset \cap DOMAIN l)
    IN  IF \E t \in tset : t \notin DOMAIN l
        THEN Raise("LogKeyError", updated)
        ELSE IF branch \notin Range(brs)
        THEN Raise("LogKeyError", updated)
        ELSE IF ~Truthy(branch)
        THEN Ok(updated)
        ELSE IF \E t \in tset : ~IsMap(l[t])
        THEN Raise("AttributeError", l)
        ELSE Ok(Update(updated,
                       [t \in tset |-> Map(Without(l[t].m, {branch}))]))

\* RunLog.rm(*targets, branch=branch); branch is keyword-only
RunLog_rm(l, brs, targets, branch) ==
    LET tset    == Range(targets)
        updated == Without(l, tset)
    IN  IF \E t \in tset : t \notin DOMAIN l
        THEN Raise("LogKeyError", l)
        ELSE IF branch \notin Range(brs)
        THEN Raise("LogKeyError", l)
        ELSE IF ~Truthy(branch)
        THEN Ok(updated)
        ELSE IF \E t \in tset : ~IsMap(l[t])
        THEN Raise("AttributeError", l)
        ELSE Ok(Update(updated,
                       [t \in tset |-> Map(Without(l[t].m, {branch}))]))

----------------------------------------------------------------------------
(* Project: the path orchestration.  Each operator returns                 *)
(* [err, dirs, paths]: the exception raised, the directories existing      *)
(* afterwards and the list the method returns.                             *)

\* Project._directories: attrs.path / branch / attrs.rundir for every
\* branch in attrs.branches or ['']
directories(brs) ==
    LET names == IF Len(brs) = 0 THEN <<"">> ELSE brs
    IN  [i \in 1..Len(names) |-> Join(Join(root, names[i]), rundir)]

\* the run directory of run `name` in branch b ("" in an unbranched
\* project): rundir / name for the rundir of b
RunPath(b, name) == Join(Join(Join(root, b), rundir), name)

\* Project._get_rundirs; `subset` is the set that run, mv and rm build
\* from their subset argument (a string gives a one-member set, None the
\* empty set)
get_rundirs(brs, subset) ==
    IF subset = {}
    THEN directories(brs)
    ELSE SelectSeq(directories(brs), LAMBDA d : Name(Parent(d)) \in subset)

\* pathlib.Path.exists
Exists(d, f, path) == path \in d \cup f

\* pathlib.Path.is_dir
IsDir(d, path) == path \in d

\* Project._make_paths_check: the exception its loop raises
make_paths_check(d, f, paths) ==
    IF \E i \in 1..Len(paths) : Exists(d, f, paths[i])
    THEN "PathOperationError"
    ELSE ""

\* mkdir for paths[i], paths[i+1], ... up to the first one that exists
RECURSIVE MakeUntilExisting(_, _, _, _)
MakeUntilExisting(d, f, paths, i) ==
    IF i > Len(paths) \/ Exists(d, f, paths[i])
    THEN d
    ELSE MakeUntilExisting(d \cup {paths[i]}, f, paths, i + 1)

\* _make_paths as it would be with the existence check made inside the
\* creating loop instead of before it
make_paths_interleaved(d, f, brs, name, subset) ==
    LET rundirs == get_rundirs(brs, subset)
        paths   == [i \in 1..Len(rundirs) |-> Join(rundirs[i], name)]
        err     == make_paths_check(d, f, paths)
    IN  IF err # ""
        THEN [err |-> err, dirs |-> MakeUntilExisting(d, f, paths, 1),
              paths |-> <<>>]
        ELSE [err |-> "", dirs |-> d \cup Range(paths), paths |-> paths]

\* Project._make_paths
make_paths(d, f, brs, name, subset) ==
    LET rundirs == get_rundirs(brs, subset)
        paths   == [i \in 1..Len(rundirs) |-> Join(rundirs[i], name)]
        err     == make_paths_check(d, f, paths)
    IN  IF err # ""
        THEN [err |-> err, dirs |-> d, paths |-> <<>>]
        ELSE [err |-> "", dirs |-> d \cup Range(paths), paths |-> paths]

\* what _rename_paths_check raises for one (old, new) pair
PairErr(d, f, pair) ==
       \/ ~Exists(d, f, pair[1])
       \/ ~IsDir(d, pair[1])
       \/ Exists(d, f, pair[2])

\* Project._rename_paths_check: the exception its loop raises
rename_paths_check(d, f, pairs) ==
    IF \E i \in 1..Len(pairs) : PairErr(d, f, pairs[i])
    THEN "PathOperationError"
    ELSE ""

\* action(*pair) for the pairs i..Len(pairs) in order: old.rename(new)
RECURSIVE RenameFrom(_, _, _)
RenameFrom(d, pairs, i) ==
    IF i > Len(pairs)
    THEN d
    ELSE RenameFrom((d \ {pairs[i][1]}) \cup {pairs[i][2]}, pairs, i + 1)

\* old.rename(new) for pairs[i], pairs[i+1], ... up to the first pair that
\* fails its check
RECURSIVE RenameUntilBad(_, _, _, _)
RenameUntilBad(d, f, pairs, i) ==
    IF i > Len(pairs) \/ PairErr(d, f, pairs[i])
    THEN d
    ELSE RenameUntilBad((d \ {pairs[i][1]}) \cup {pairs[i][2]}, f, pairs, i + 1)

\* _rename_paths as it would be with the checks made inside the renaming
\* loop instead of before it
rename_paths_interleaved(d, f, brs, src, dst, subset) ==
    LET rundirs == get_rundirs(brs, subset)
        pairs   == [i \in 1..Len(rundirs) |->
                       <<Join(rundirs[i], src), Join(rundirs[i], dst)>>]
        err     == rename_paths_check(d, f, pairs)
    IN  IF err # ""
        THEN [err |-> err, dirs |-> RenameUntilBad(d, f, pairs, 1),
              paths |-> <<>>]
        ELSE [err |-> "", dirs |-> RenameFrom(d, pairs, 1), paths |-> pairs]

\* Project._rename_paths
rename_paths(d, f, brs, src, dst, subset) ==
    LET rundirs == get_rundirs(brs, subset)
        pairs   == [i \in 1..Len(rundirs) |->
                       <<Join(rundirs[i], src), Join(rundirs[i], dst)>>]
        err     == rename_paths_check(d, f, pairs)
    IN  IF err # ""
        THEN [err |-> err, dirs |-> d, paths |-> <<>>]
        ELSE [err |-> "", dirs |-> RenameFrom(d, pairs, 1), paths |-> pairs]

\* fnmatch of a run-directory name against the pattern given to glob
Matches(pattern, name) == pattern = "*" \/ pattern = name

\* rundir.glob(name): the matching entries of rundir, in the order of
\* NamePool
Glob(d, f, rd, pattern) ==
    LET hit(i) == /\ Matches(pattern, NamePool[i])
                  /\ Exists(d, f, Join(rd, NamePool[i]))
        idx    == SelectSeq([i \in 1..Len(NamePool) |-> i], hit)
    IN  [j \in 1..Len(idx) |-> Join(rd, NamePool[idx[j]])]

\* the concatenation of a sequence of sequences
RECURSIVE Flatten(_)
Flatten(ss) == IF Len(ss) = 0 THEN <<>> ELSE Head(ss) \o Flatten(Tail(ss))

\* Project._remove_paths_check: the exception its loop raises
remove_paths_check(d, f, paths) ==
    IF \E i \in 1..Len(paths) :
          ~Exists(d, f, paths[i]) \/ ~IsDir(d, paths[i])
    THEN "PathOperationError"
    ELSE ""

\* Project._remove_paths
remove_paths(d, f, brs, name, subset) ==
    LET rundirs == get_rundirs(brs, subset)
        paths   == Flatten([i \in 1..Len(rundirs) |->
                               Glob(d, f, rundirs[i], name)])
        err     == remove_paths_check(d, f, paths)
    IN  IF err # ""
        THEN [err |-> err, dirs |-> d, paths |-> <<>>]
        ELSE [err |-> "", dirs |-> d \ Range(paths), paths |-> paths]

----------------------------------------------------------------------------
(* Project: the lifecycle operations.  Each operator returns               *)
(* [err, dirs, log]: the exception raised ("" for a normal return) and     *)
(* the directory tree and log file as the call leaves them.                *)

\* path.parent.parent.name of a run directory: the name of its branch, or
\* of the project root when the project has no branches
BranchOf(path) == Name(Parent(Parent(path)))

\* the entry Project.run appends for one run directory; the located
\* programs and the timestamp are opaque strings
logentry(path) ==
    Map([x \in {"mpirun", "eprem", "directory", "time"} |->
            CASE x = "mpirun"    -> Str(<<"mpirun">>)
              [] x = "eprem"     -> Str(<<"eprem">>)
              [] x = "directory" -> Str(path)
              [] x = "time"      -> Str(<<"time">>)])

\* the loop of Project.run over paths[i..n]: the external run is awaited
\* whatever its exit code, then self.log.append(name, branch.name, logentry)
RECURSIVE AppendFrom(_, _, _, _, _)
AppendFrom(l, name, paths, i, n) ==
    IF i > n
    THEN Ok(l)
    ELSE LET r == RunLog_append(l, name, BranchOf(paths[i]), logentry(paths[i]))
         IN  IF r.err # "" THEN r ELSE AppendFrom(r.log, name, paths, i + 1, n)

\* Project.run(config, name, subset).  `done` is the number of loop
\* iterations the environment lets complete: locating the programs
\* (_locate), copying the configuration file and starting the process
\* raise when the file or program is missing.
Project_run(d, f, l, brs, name, subset, done) ==
    LET created == RunLog_create(l, name, NoSource)
        made    == make_paths(d, f, brs, name, subset)
    IN  IF made.err # ""
        THEN [err |-> made.err, dirs |-> made.dirs, log |-> created.log]
        ELSE LET n == IF done < Len(made.paths) THEN done ELSE Len(made.paths)
                 r == AppendFrom(created.log, name, made.paths, 1, n)
             IN  [err  |-> IF r.err # "" THEN r.err
                           ELSE IF n < Len(made.paths) THEN "ExternalError"
                           ELSE "",
                  dirs |-> made.dirs,
                  log  |-> r.log]

\* the iterations of the loop of Project.run that print the warning: those
\* whose process.returncode is not 0
Warned(codes) == {i \in 1..Len(codes) : codes[i] # 0}

\* Project.run as it would be if the loop were left at the first process
\* that exits with a non-zero code
Project_run_stopping(d, f, l, brs, name, subset, codes) ==
    LET created == RunLog_create(l, name, NoSource)
        made    == make_paths(d, f, brs, name, subset)
    IN  IF made.err # ""
        THEN [err |-> made.err, dirs |-> made.dirs, log |-> created.log,
              warned |-> {}]
        ELSE LET n == IF Warned(codes) = {} THEN Len(made.paths)
                      ELSE (CHOOSE i \in Warned(codes) :
                               \A j \in Warned(codes) : i <= j) - 1
                 r == AppendFrom(created.log, name, made.paths, 1, n)
             IN  [err |-> r.err, dirs |-> made.dirs, log |-> r.log,
                  warned |-> Warned(codes) \cap 1..(n + 1)]

\* Project.run(config, name, subset) when every iteration of the loop
\* completes, the process of iteration i exiting with codes[i]: the exit
\* code decides only whether the warning is printed
Project_run_exits(d, f, l, brs, name, subset, codes) ==
    LET r == Project_run(d, f, l, brs, name, subset, Len(codes))
    IN  [err |-> r.err, dirs |-> r.dirs, log |-> r.log,
         warned |-> IF r.err = "" THEN Warned(codes) ELSE {}]

\* the loop of Project.mv: self.log.mv(source, target, branch) for the
\* branch of pairs[i], pairs[i+1], ...
RECURSIVE MvFrom(_, _, _, _, _, _)
MvFrom(l, brs, source, target, pairs, i) ==
    IF i > Len(pairs)
    THEN Ok(l)
    ELSE LET r == RunLog_mv_call(l, brs,
                                 <<source, target, BranchOf(pairs[i][1])>>)
         IN  IF r.err # "" THEN r
             ELSE MvFrom(r.log, brs, source, target, pairs, i + 1)

\* Project.mv(source, target, subset)
Project_mv(d, f, l, brs, source, target, subset) ==
    LET renamed == rename_paths(d, f, brs, source, target, subset)
    IN  IF renamed.err # ""
        THEN [err |-> renamed.err, dirs |-> renamed.dirs, log |-> l]
        ELSE IF Len(renamed.paths) = 0
        THEN [err |-> "", dirs |-> renamed.dirs, log |-> l]
        ELSE LET r == MvFrom(l, brs, source, target, renamed.paths, 1)
             IN  [err |-> r.err, dirs |-> renamed.dirs, log |-> r.log]

\* the loop of Project.rm: self.log.rm(*targets, branch) for the branch of
\* paths[i], paths[i+1], ...; the branch name is passed positionally, so it
\* joins the targets and the keyword `branch` keeps its default
RECURSIVE RmFrom(_, _, _, _, _)
RmFrom(l, brs, targets, paths, i) ==
    IF i > Len(paths)
    THEN Ok(l)
    ELSE LET r == RunLog_rm(l, brs, Append(targets, BranchOf(paths[i])), None)
         IN  IF r.err # "" THEN r
             ELSE RmFrom(r.log, brs, targets, paths, i + 1)

\* Project.rm(run, subset)
Project_rm(d, f, l, brs, run, subset) ==
    LET removed == remove_paths(d, f, brs, run, subset)
        targets == [i \in 1..Len(removed.paths) |-> Name(removed.paths[i])]
    IN  IF removed.err # ""
        THEN [err |-> removed.err, dirs |-> removed.dirs, log |-> l]
        ELSE LET r == RmFrom(l, brs, targets, removed.paths, 1)
             IN  [err |-> r.err, dirs |-> removed.dirs, log |-> r.log]

----------------------------------------------------------------------------
(* Project: construction and removal.  Each operator returns               *)
(* [err, database, created, attrs]: the exception raised, the registry     *)
(* file and the roots on disk afterwards, and the attributes the new       *)
(* object holds (None when the constructor raised).                        *)

\* no keyword arguments: Project(root)
NoKwargs == EmptyMap

\* kwargs.get(key) or default, with `empty` the false value of the type
GetOr(kwargs, key, default, empty) ==
    IF key \in DOMAIN kwargs /\ kwargs[key] # empty
    THEN kwargs[key]
    ELSE default

\* _ProjectInit(root, **kwargs), as the mapping dict(init) of its attributes
ProjectInit(path, kwargs) ==
    [branches |-> GetOr(kwargs, "branches", <<>>, <<>>),
     config   |-> GetOr(kwargs, "config", config, ""),
     output   |-> GetOr(kwargs, "output", output, ""),
     rundir   |-> GetOr(kwargs, "rundir", rundir, ""),
     logstem  |-> GetOr(kwargs, "logstem", logstem, ""),
     root     |-> path]

\* the registry file: absent, or holding the JSON object m
NoFile == [exists |-> FALSE, m |-> EmptyMap]

File(m) == [exists |-> TRUE, m |-> m]

\* the outcome of a constructor or of remove
Built(err, db, cr, attrs) ==
    [err |-> err, database |-> db, projects |-> cr, attrs |-> attrs]

\* Project._init_attrs as it would be if the registry were written before
\* the existing root is refused
init_attrs_writing(db, cr, path, kwargs) ==
    LET init == ProjectInit(path, kwargs)
    IN  IF path \in DOMAIN cr /\ kwargs # NoKwargs
        THEN Built("ProjectExistsError", File(Single(path, init)), cr, None)
        ELSE IF path \in DOMAIN cr
        THEN IF ~db.exists
             THEN Built("FileNotFoundError", db, cr, None)
             ELSE IF path \notin DOMAIN db.m
             THEN Built("KeyError", db, cr, None)
             ELSE Built("", db, cr, ProjectInit(db.m[path].root, db.m[path]))
        ELSE Built("", File(Single(path, init)), Put(cr, path, init), init)

\* Project._init_attrs(root, kwargs), with db the registry file and cr the
\* roots on disk
init_attrs(db, cr, path, kwargs) ==
    IF path \in DOMAIN cr /\ kwargs # NoKwargs
    THEN Built("ProjectExistsError", db, cr, None)
    ELSE IF path \in DOMAIN cr
    THEN IF ~db.exists
         THEN Built("FileNotFoundError", db, cr, None)
         ELSE IF path \notin DOMAIN db.m
         THEN Built("KeyError", db, cr, None)
         ELSE Built("", db, cr, ProjectInit(db.m[path].root, db.m[path]))
    ELSE LET init == ProjectInit(path, kwargs)
         IN  Built("", File(Single(path, init)), Put(cr, path, init), init)

\* Project.remove() on the project at path
Project_remove(db, cr, path) ==
    IF path \notin DOMAIN cr
    THEN Built("FileNotFoundError", db, cr, None)
    ELSE IF ~db.exists
    THEN Built("FileNotFoundError", db, Without(cr, {path}), None)
    ELSE Built("", File(Without(db.m, {path})), Without(cr, {path}), None)

----------------------------------------------------------------------------
(* The state machine: a project and the calls made on it. *)

\* the subset arguments the callers use: none, or one branch name
Subsets == {{}} \cup {{b} : b \in BranchNames}

\* no call in progress
Idle == [op |-> "idle", at |-> "", name |-> "", target |-> "", subset |-> {},
         paths |-> <<>>, i |-> 0]

\* a call in progress: its arguments, the statement it is at, and the list
\* and index of the loop it is in
Frame(op, at, name, target, subset, paths, i) ==
    [op |-> op, at |-> at, name |-> name, target |-> target,
     subset |-> subset, paths |-> paths, i |-> i]

\* the record of a call on the project: its arguments and the exception it
\* raised ("" for a normal return)
Call(op, name, target, subset, err) ==
    [op |-> op, name |-> name, target |-> target, subset |-> subset,
     targets |-> <<>>, branch |-> None, err |-> err]

\* the record of a call on the log
LogCall(op, targets, branch, err) ==
    [op |-> op, name |-> "", target |-> "", subset |-> {},
     targets |-> targets, branch |-> branch, err |-> err]

\* Project.__init__ on a fresh root: the log holds the common attributes
Init ==
    /\ branches \in BranchChoices
    /\ projects = Single(root, ProjectInit(root, [branches |-> branches]))
    /\ database = File(projects)
    /\ dirs = {}
    /\ files = {}
    /\ log = RunLog_init(Common)
    /\ last = Call("init", "", "", {}, "")
    /\ pdirs = {}
    /\ plog = RunLog_init(Common)
    /\ frame = Idle
    /\ ncalls = 0

\* the effect of a finished call
Finish(op, name, target, subset, r) ==
    /\ dirs' = r.dirs
    /\ log' = r.log
    /\ last' = Call(op, name, target, subset, r.err)
    /\ pdirs' = dirs
    /\ plog' = log
    /\ ncalls < MaxCalls
    /\ ncalls' = ncalls + 1
    /\ UNCHANGED <<database, projects, branches, files, frame>>

Run ==
    \E name \in RunNames, subset \in Subsets :
      \E done \in 0..Len(get_rundirs(branches, subset)) :
        /\ frame = Idle
        /\ Finish("run", name, "", subset,
                  Project_run(dirs, files, log, branches, name, subset, done))

Mv ==
    \E source \in RunNames, target \in RunNames, subset \in Subsets :
        /\ frame = Idle
        /\ Finish("mv", source, target, subset,
                  Project_mv(dirs, files, log, branches, source, target, subset))

Rm ==
    \E run \in Patterns, subset \in Subsets :
        /\ frame = Idle
        /\ Finish("rm", run, "", subset,
                  Project_rm(dirs, files, log, branches, run, subset))

Next == Run \/ Mv \/ Rm

Spec == Init /\ [][Next]_vars

----------------------------------------------------------------------------
(* The lifecycle operations statement by statement: each step is one call  *)
(* that Project.run, Project.mv or Project.rm makes on the log or on the    *)
(* directory tree, so that the states between two steps are the states a    *)
(* stopped execution leaves behind.                                         *)

\* a call begins: remember the state it began in
Begin ==
    /\ frame = Idle
    /\ ncalls < MaxCalls
    /\ ncalls' = ncalls + 1
    /\ pdirs' = dirs
    /\ plog' = log

\* a call ends, raising err or returning ("")
Return(op, name, target, subset, err) ==
    /\ last' = Call(op, name, target, subset, err)
    /\ frame' = Idle

\* Project.run, line 432: self.log.create(name)
RunCreate ==
    \E name \in RunNames, subset \in Subsets :
        /\ Begin
        /\ log' = RunLog_create(log, name, NoSource).log
        /\ frame' = Frame("run", "make", name, "", subset, <<>>, 0)
        /\ UNCHANGED <<database, projects, branches, dirs, files, last>>

\* Project.run, line 433: self._make_paths(name, directories)
RunMake ==
    /\ frame.op = "run" /\ frame.at = "make"
    /\ LET made == make_paths(dirs, files, branches, frame.name, frame.subset)
       IN  /\ dirs' = made.dirs
           /\ IF made.err # ""
              THEN Return("run", frame.name, "", frame.subset, made.err)
              ELSE /\ frame' = [frame EXCEPT !.at = "loop",
                                             !.paths = made.paths, !.i = 1]
                   /\ UNCHANGED last
    /\ UNCHANGED <<database, projects, branches, files, log, pdirs, plog, ncalls>>

\* Project.run, lines 434-467: one iteration of the loop, which the
\* environment lets complete or not, or the return after the last one
RunIter ==
    /\ frame.op = "run" /\ frame.at = "loop"
    /\ IF frame.i > Len(frame.paths)
       THEN /\ Return("run", frame.name, "", frame.subset, "")
            /\ UNCHANGED log
       ELSE \/ /\ Return("run", frame.name, "", frame.subset, "ExternalError")
               /\ UNCHANGED log
            \/ LET r == RunLog_append(log, frame.name,
                                      BranchOf(frame.paths[frame.i]),
                                      logentry(frame.paths[frame.i]))
               IN  /\ log' = r.log
                   /\ IF r.err # ""
                      THEN Return("run", frame.name, "", frame.subset, r.err)
                      ELSE /\ frame' = [frame EXCEPT !.i = frame.i + 1]
                           /\ UNCHANGED last
    /\ UNCHANGED <<database, projects, branches, dirs, files, pdirs, plog, ncalls>>

\* Project.mv, lines 481-485: self._rename_paths(source, target, directories)
MvRename ==
    \E source \in RunNames, target \in RunNames, subset \in Subsets :
        LET renamed == rename_paths(dirs, files, branches, source, target, subset)
        IN  /\ Begin
            /\ dirs' = renamed.dirs
            /\ IF renamed.err # "" \/ Len(renamed.paths) = 0
               THEN Return("mv", source, target, subset, renamed.err)
               ELSE /\ frame' = Frame("mv", "loop", source, target, subset,
                                      renamed.paths, 1)
                    /\ UNCHANGED last
            /\ UNCHANGED <<database, projects, branches, files, log>>

\* Project.mv, lines 487-488: one self.log.mv(source, target, branch), or
\* the return after the last one
MvIter ==
    /\ frame.op = "mv" /\ frame.at = "loop"
    /\ IF frame.i > Len(frame.paths)
       THEN /\ Return("mv", frame.name, frame.target, frame.subset, "")
            /\ UNCHANGED log
       ELSE LET r == RunLog_mv_call(log, branches,
                        <<frame.name, frame.target,
                          BranchOf(frame.paths[frame.i][1])>>)
            IN  /\ log' = r.log
                /\ IF r.err # ""
                   THEN Return("mv", frame.name, frame.target, frame.subset,
                               r.err)
                   ELSE /\ frame' = [frame EXCEPT !.i = frame.i + 1]
                        /\ UNCHANGED last
    /\ UNCHANGED <<database, projects, branches, dirs, files, pdirs, plog, ncalls>>

\* Project.rm, lines 506-511: self._remove_paths(run, directories)
RmRemove ==
    \E run \in Patterns, subset \in Subsets :
        LET removed == remove_paths(dirs, files, branches, run, subset)
        IN  /\ Begin
            /\ dirs' = removed.dirs
            /\ IF removed.err # ""
               THEN Return("rm", run, "", subset, removed.err)
               ELSE /\ frame' = Frame("rm", "loop", run, "", subset,
                                      removed.paths, 1)
                    /\ UNCHANGED last
            /\ UNCHANGED <<database, projects, branches, files, log>>

\* Project.rm, lines 512-513: one self.log.rm(*targets, branch), or the
\* return after the last one
RmIter ==
    /\ frame.op = "rm" /\ frame.at = "loop"
    /\ IF frame.i > Len(frame.paths)
       THEN /\ Return("rm", frame.name, "", frame.subset, "")
            /\ UNCHANGED log
       ELSE LET targets == [j \in 1..Len(frame.paths) |-> Name(frame.paths[j])]
                r == RunLog_rm(log, branches,
                               Append(targets, BranchOf(frame.paths[frame.i])),
                               None)
            IN  /\ log' = r.log
                /\ IF r.err # ""
                   THEN Return("rm", frame.name, "", frame.subset, r.err)
                   ELSE /\ frame' = [frame EXCEPT !.i = frame.i + 1]
                        /\ UNCHANGED last
    /\ UNCHANGED <<database, projects, branches, dirs, files, pdirs, plog, ncalls>>

NextSteps ==
    RunCreate \/ RunMake \/ RunIter \/ MvRename \/ MvIter \/ RmRemove \/ RmIter

SpecSteps == Init /\ [][NextSteps]_vars

\* the steps of a call add up to the call: when a call has ended, the tree
\* and the log are what Project_run, Project_mv or Project_rm give for the
\* state the call began in
StepsAgree ==
    (frame = Idle /\ last.op # "init") =>
        LET got == [err |-> last.err, dirs |-> dirs, log |-> log]
        IN  CASE last.op = "run" ->
                   \E done \in 0..Len(get_rundirs(branches, last.subset)) :
                       got = Project_run(pdirs, files, plog, branches,
                                         last.name, last.subset, done)
              [] last.op = "mv" ->
                   got = Project_mv(pdirs, files, plog, branches,
                                    last.name, last.target, last.subset)
              [] last.op = "rm" ->
                   got = Project_rm(pdirs, files, plog, branches,
                                    last.name, last.subset)

----------------------------------------------------------------------------
(* The path orchestration alone: one call of _make_paths, _rename_paths or *)
(* _remove_paths on any directory tree of the project.  Any set of run      *)
(* directories can be there (Project.run with subsets creates them); a      *)
(* regular file where a run directory would be is put there from outside.  *)

\* every path <rundir>/<name> of the project
RunPaths(brs) ==
    {Join(directories(brs)[i], n) : i \in 1..Len(directories(brs)), n \in RunNames}

\* at most one stray regular file
StrayFiles(brs) == {{}} \cup {{p} : p \in RunPaths(brs)}

InitPaths ==
    /\ branches \in BranchChoices
    /\ projects = Single(root, ProjectInit(root, [branches |-> branches]))
    /\ database = File(projects)
    /\ files \in StrayFiles(branches)
    /\ dirs \in SUBSET (RunPaths(branches) \ files)
    /\ log = RunLog_init(Common)
    /\ last = Call("init", "", "", {}, "")
    /\ pdirs = dirs
    /\ plog = log
    /\ frame = Idle
    /\ ncalls = 0

\* the effect of one call on the tree
FinishPaths(op, name, target, subset, r) ==
    /\ ncalls = 0
    /\ ncalls' = 1
    /\ dirs' = r.dirs
    /\ last' = Call(op, name, target, subset, r.err)
    /\ pdirs' = dirs
    /\ plog' = log
    /\ UNCHANGED <<database, projects, branches, files, log, frame>>

MakePaths ==
    \E name \in RunNames, subset \in Subsets :
        FinishPaths("make_paths", name, "", subset,
                    make_paths(dirs, files, branches, name, subset))

RenamePaths ==
    \E src \in RunNames, dst \in RunNames, subset \in Subsets :
        FinishPaths("rename_paths", src, dst, subset,
                    rename_paths(dirs, files, branches, src, dst, subset))

RemovePaths ==
    \E name \in Patterns, subset \in Subsets :
        FinishPaths("remove_paths", name, "", subset,
                    remove_paths(dirs, files, branches, name, subset))

NextPaths == MakePaths \/ RenamePaths \/ RemovePaths

SpecPaths == InitPaths /\ [][NextPaths]_vars

----------------------------------------------------------------------------
(* The log alone: one call of a RunLog method on any log the project can   *)
(* hold.  A run's record is what Project.run leaves (one sub-record per     *)
(* branch it completed, keyed by the root's name in an unbranched project)  *)
(* or, in an unbranched project, the flat record RunLog.create stores from  *)
(* a mapping.                                                               *)

\* the records the log can hold for run n
Entries(brs, n) ==
    IF Len(brs) = 0
    THEN {Map(EmptyMap),
          Map(Single(Name(root), logentry(RunPath("", n)))),
          logentry(RunPath("", n))}
    ELSE {Map([b \in S |-> logentry(RunPath(b, n))]) : S \in SUBSET Range(brs)}

\* the logs of a project: the common attributes and a record for some runs
Logs(brs) ==
    UNION {
        {Update(RunLog_init(Common), f) :
            f \in {g \in [K -> UNION {Entries(brs, n) : n \in K}] :
                      \A n \in K : g[n] \in Entries(brs, n)}} :
        K \in SUBSET RunNames}

InitLog ==
    /\ branches \in BranchChoices
    /\ projects = Single(root, ProjectInit(root, [branches |-> branches]))
    /\ database = File(projects)
    /\ log \in Logs(branches)
    /\ dirs = {}
    /\ files = {}
    /\ last = Call("init", "", "", {}, "")
    /\ pdirs = dirs
    /\ plog = log
    /\ frame = Idle
    /\ ncalls = 0

\* the keys the callers name: run names and a common attribute
TargetKeys == RunNames \cup {"config"}

\* the target lists given to RunLog.rm
TargetLists == UNION {[1..n -> TargetKeys] : n \in 0..MaxTargets}

\* the effect of one call on the log
FinishLog(call, r) ==
    /\ ncalls = 0
    /\ ncalls' = 1
    /\ log' = r.log
    /\ last' = call
    /\ pdirs' = dirs
    /\ plog' = log
    /\ UNCHANGED <<database, projects, branches, dirs, files, frame>>

LogRm ==
    \E targets \in TargetLists, branch \in BranchNames \cup {None} :
        LET r == RunLog_rm(log, branches, targets, branch)
        IN  FinishLog(LogCall("log_rm", targets, branch, r.err), r)

\* the record of a call on the log that takes one key and one value
LogCallWith(op, name, target, value, err) ==
    [op |-> op, name |-> name, target |-> target, subset |-> {},
     targets |-> <<>>, branch |-> None, err |-> err, value |-> value]

\* the keys appended to a record: a branch name, the root's name, or the
\* name of an attribute of a run
AppendKeys == BranchNames \cup {Name(root), "directory"}

\* the metadata appended: a string, or a mapping such as logentry
Metadata == {Str(<<"note">>), Map(EmptyMap), logentry(RunPath("", "r1"))}

LogAppend ==
    \E target \in TargetKeys, key \in AppendKeys, metadata \in Metadata :
        LET r == RunLog_append(log, target, key, metadata)
        IN  FinishLog(LogCallWith("log_append", key, target, metadata, r.err),
                      r)

LogMv ==
    \E source \in TargetKeys, target \in RunNames :
        LET r == RunLog_mv(log, branches, source, target)
        IN  FinishLog(LogCallWith("log_mv", source, target, None, r.err), r)

\* the mappings given to RunLog.create, directly or as the parsed content
\* of a file
Loaded == {EmptyMap,
           Single("note", Str(<<"note">>)),
           logentry(RunPath("", "r1")).m}

Sources == {NoSource} \cup {MappingSource(f) : f \in Loaded}
                      \cup {FileSource(f) : f \in Loaded}

LogCreate ==
    \E key \in RunNames, source \in Sources :
        LET r == RunLog_create(log, key, source)
        IN  FinishLog(LogCallWith("log_create", key, "", source, r.err), r)

NextLog == LogRm \/ LogAppend \/ LogMv \/ LogCreate

SpecLog == InitLog /\ [][NextLog]_vars

----------------------------------------------------------------------------
(* Projects and the registry: projects are created, re-opened and removed  *)
(* at several roots, all from one working directory (the registry file is  *)
(* named relative to it).  The directory tree and the log followed are      *)
(* those of the project at `root`, in which runs are spawned.               *)

\* the roots the callers name
Roots == {root, <<"q">>}

\* the keyword arguments given to the constructor
Kwargs == {NoKwargs} \cup {[branches |-> brs] : brs \in BranchChoices}

\* the record of a constructor call or of remove: the root named, the
\* keyword arguments, whether the root was on disk, the exception raised
\* and the attributes of the object built
ProjectCall(op, path, kwargs, existed, err, attrs) ==
    [op |-> op, name |-> "", target |-> "", subset |-> {}, targets |-> <<>>,
     branch |-> None, err |-> err, path |-> path, kwargs |-> kwargs,
     existed |-> existed, attrs |-> attrs]

\* nothing on disk: no registry file and no root (the log of a project is
\* a file under its root: it has no content while the root is missing)
InitProjects ==
    /\ database = NoFile
    /\ projects = EmptyMap
    /\ branches = <<>>
    /\ dirs = {}
    /\ files = {}
    /\ log = EmptyMap
    /\ last = Call("init", "", "", {}, "")
    /\ pdirs = {}
    /\ plog = EmptyMap
    /\ frame = Idle
    /\ ncalls = 0

\* the effect of a constructor call or of remove on the registry and roots
FinishProject(call, r) ==
    /\ frame = Idle
    /\ ncalls < MaxCalls
    /\ ncalls' = ncalls + 1
    /\ database' = r.database
    /\ projects' = r.projects
    /\ last' = call
    /\ pdirs' = dirs
    /\ plog' = log
    /\ UNCHANGED <<files, frame>>

\* Project.__init__(path, **kwargs): _init_attrs, then the run-holding
\* directories are made if missing and RunLog(...) writes the log anew
Open ==
    \E path \in Roots, kwargs \in Kwargs :
        LET r == init_attrs(database, projects, path, kwargs)
        IN  /\ FinishProject(ProjectCall("open", path, kwargs,
                                         path \in DOMAIN projects,
                                         r.err, r.attrs), r)
            /\ IF r.err = "" /\ path = root
               THEN /\ branches' = r.attrs.branches
                    /\ log' = RunLog_init(Common)
                    /\ UNCHANGED dirs
               ELSE UNCHANGED <<branches, dirs, log>>

\* Project.remove() on the object of a project that is on disk
Remove ==
    \E path \in DOMAIN projects :
        LET r == Project_remove(database, projects, path)
        IN  /\ FinishProject(ProjectCall("remove", path, NoKwargs, TRUE,
                                         r.err, None), r)
            /\ IF path = root
               THEN /\ branches' = <<>>
                    /\ dirs' = {}
                    /\ log' = EmptyMap
               ELSE UNCHANGED <<branches, dirs, log>>

\* Project.run(config, name) on the project at root, every iteration
\* completing
RunAll ==
    \E name \in RunNames :
        /\ root \in DOMAIN projects
        /\ frame = Idle
        /\ Finish("run", name, "", {},
                  Project_run(dirs, files, log, branches, name, {},
                              Len(get_rundirs(branches, {}))))

NextProjects == Open \/ Remove \/ RunAll

SpecProjects == InitProjects /\ [][NextProjects]_vars

----------------------------------------------------------------------------
(* One call of Project.run whose processes exit with any codes, on a       *)
(* project that holds the records and directories of earlier runs.         *)

\* the exit codes of the external process
ExitCodes == {0, 1}

\* the run directories of the records in the log l: one for each branch a
\* record has a sub-record for
Spawned(brs, l) ==
    {p \in RunPaths(brs) :
        /\ Name(p) \in DOMAIN l
        /\ IsMap(l[Name(p)])
        /\ BranchOf(p) \in DOMAIN l[Name(p)].m}

InitRun ==
    /\ branches \in BranchChoices
    /\ projects = Single(root, ProjectInit(root, [branches |-> branches]))
    /\ database = File(projects)
    /\ log \in Logs(branches)
    /\ dirs = Spawned(branches, log)
    /\ files = {}
    /\ last = Call("init", "", "", {}, "")
    /\ pdirs = dirs
    /\ plog = log
    /\ frame = Idle
    /\ ncalls = 0

\* the record of a call of Project.run: its arguments, the exit codes of
\* its processes, the iterations that printed the warning, the exception
RunCall(name, subset, codes, warned, err) ==
    [op |-> "run", name |-> name, target |-> "", subset |-> subset,
     targets |-> <<>>, branch |-> None, err |-> err, codes |-> codes,
     warned |-> warned]

RunExits ==
    \E name \in RunNames, subset \in Subsets :
      \E codes \in [1..Len(get_rundirs(branches, subset)) -> ExitCodes] :
        LET r == Project_run_exits(dirs, files, log, branches, name, subset,
                                   codes)
        IN  /\ ncalls = 0
            /\ ncalls' = 1
            /\ dirs' = r.dirs
            /\ log' = r.log
            /\ last' = RunCall(name, subset, codes, r.warned, r.err)
            /\ pdirs' = dirs
            /\ plog' = log
            /\ UNCHANGED <<database, projects, branches, files, frame>>

NextRun == RunExits

SpecRun == InitRun /\ [][NextRun]_vars

----------------------------------------------------------------------------
(* Properties of the path orchestration (SpecPaths). *)

\* the run directory paths of run `name` in the branches selected by subset
\* (all of them when no subset is given)
Selected(name, subset) ==
    {p \in RunPaths(branches) :
        Name(p) = name /\ (subset = {} \/ BranchOf(p) \in subset)}

\* the directory holding the run directory p
RunDirOf(p) == Parent(p)

\* C7: _make_paths checks the whole target set before creating anything.
\* If any target path exists already it raises PathOperationError and the
\* directory tree is as before (no target is created in any branch); if
\* none exists it returns normally and exactly the targets are created.
C7_MakeAllOrNothing ==
    last.op = "make_paths" =>
        LET targets == Selected(last.name, last.subset)
        IN  IF \E p \in targets : p \in pdirs \cup files
            THEN last.err = "PathOperationError" /\ dirs = pdirs
            ELSE last.err = "" /\ dirs = pdirs \cup targets

\* C7: _make_paths was refused although one of its targets was free
C7_Witness ==
    /\ last.op = "make_paths"
    /\ last.err = "PathOperationError"
    /\ \E p \in Selected(last.name, last.subset) : p \notin pdirs \cup files

\* C8: _rename_paths checks every (old, new) pair before renaming any.  If
\* any old is missing or not a directory, or any new exists, it raises
\* PathOperationError and the directory tree is as before (every old
\* directory in place, no new one created); otherwise every old directory
\* has become the new one.
C8_RenameAllOrNothing ==
    last.op = "rename_paths" =>
        LET olds == Selected(last.name, last.subset)
            new(p) == Join(RunDirOf(p), last.target)
        IN  IF \E p \in olds : p \notin pdirs \/ new(p) \in pdirs \cup files
            THEN last.err = "PathOperationError" /\ dirs = pdirs
            ELSE /\ last.err = ""
                 /\ dirs = (pdirs \ olds) \cup {new(p) : p \in olds}

\* C8: _rename_paths was refused although one of its pairs could have been
\* renamed
C8_Witness ==
    /\ last.op = "rename_paths"
    /\ last.err = "PathOperationError"
    /\ \E p \in Selected(last.name, last.subset) :
          /\ p \in pdirs
          /\ Join(RunDirOf(p), last.target) \notin pdirs \cup files

----------------------------------------------------------------------------
(* Properties of the lifecycle operations (Spec). *)

\* the branch segments of the project's layout
Segments == IF Len(branches) = 0 THEN {""} ELSE Range(branches)

\* run `name` has a directory in at least one branch of the tree d
HasDirectory(d, name) == \E b \in Segments : RunPath(b, name) \in d

\* every run name that is a key of the log l has a directory in the tree d
LogHasDirectories(d, l) ==
    \A n \in RunNames : n \in DOMAIN l => HasDirectory(d, n)

\* the record of run `name` in the log l holds a sub-record for branch b
\* whose `directory` is a string
HasSubRecord(l, name, b) ==
    /\ name \in DOMAIN l
    /\ IsMap(l[name])
    /\ b \in DOMAIN l[name].m
    /\ DirectoryErr(l[name].m[b]) = ""

\* C1: after any sequence of Project.run, Project.mv and Project.rm calls,
\* each returned or raised, every run name that is a key of the log has at
\* least one existing run directory.
C1_LoggedRunsHaveDirectories == LogHasDirectories(dirs, log)

\* C3: in a branched project, mv(source, target) on a run spawned in every
\* branch, with no target directory in any branch, completes; afterwards
\* there is no source directory and no source key in the log, every
\* branch's directory is renamed to target, and the log's target entry
\* holds per-branch `directory` values ending in target.
C3_MvRenamesRunInEveryBranch ==
    ( /\ last.op = "mv"
      /\ Len(branches) > 0
      /\ last.subset = {}
      /\ \A b \in Segments :
            /\ RunPath(b, last.name) \in pdirs
            /\ RunPath(b, last.target) \notin pdirs
            /\ HasSubRecord(plog, last.name, b) )
    => /\ last.err = ""
       /\ ~HasDirectory(dirs, last.name)
       /\ last.name \notin DOMAIN log
       /\ \A b \in Segments :
             /\ RunPath(b, last.target) \in dirs
             /\ HasSubRecord(log, last.target, b)
             /\ Name(log[last.target].m[b].m["directory"].s) = last.target

\* the run directories the pattern given to Project.rm matches in the
\* selected branches of the tree d
Matched(d, pattern, subset) ==
    {p \in d \cap RunPaths(branches) :
        /\ Matches(pattern, Name(p))
        /\ (subset = {} \/ BranchOf(p) \in subset)}

\* C4: Project.rm(run) on a name matching at least one existing run
\* directory completes without error, deletes every matched directory and
\* leaves the removed runs absent from the log.
C4_RmRemovesDirectoriesAndLogEntries ==
    ( /\ last.op = "rm"
      /\ Matched(pdirs, last.name, last.subset) # {} )
    => /\ last.err = ""
       /\ dirs = pdirs \ Matched(pdirs, last.name, last.subset)
       /\ \A p \in Matched(pdirs, last.name, last.subset) :
             Name(p) \notin DOMAIN log

\* C5: when Project.run fails validation with PathOperationError, nothing
\* is mutated: no directory is created and the log is as before the call.
C5_RefusedRunMutatesNothing ==
    (last.op = "run" /\ last.err = "PathOperationError")
    => (dirs = pdirs /\ log = plog)

\* C6: in a branched project, run(config, name, subset=b) made after
\* run(config, name, subset=a), a # b, leaves the sub-record for a in the
\* log entry of name unchanged and adds the sub-record for b.
C6_BranchRecordsAreIndependent ==
    \A a \in Segments, b \in Segments :
        ( /\ last.op = "run"
          /\ last.err = ""
          /\ Len(branches) > 0
          /\ a # b
          /\ last.subset = {b}
          /\ HasSubRecord(plog, last.name, a)
          /\ DOMAIN plog[last.name].m = {a}
          /\ RunPath(a, last.name) \in pdirs )
        => /\ HasSubRecord(log, last.name, a)
           /\ log[last.name].m[a] = plog[last.name].m[a]
           /\ HasSubRecord(log, last.name, b)

\* C21: Project.mv(source, target) is a no-op when nothing matches: if no
\* selected branch holds a directory for source, the call returns without
\* raising and changes neither the directory tree nor the log.
C21_MvWithoutMatchIsNoOp ==
    ( /\ last.op = "mv"
      /\ \A p \in Selected(last.name, last.subset) : p \notin pdirs )
    => /\ last.err = ""
       /\ dirs = pdirs
       /\ log = plog

\* the selected run directories of run `name` that exist in the tree d
Holding(d, name, subset) == Selected(name, subset) \cap d

\* C23: in a branched project, Project.mv(source, target) on a run whose
\* directories exist in only some of the branches renames the directories
\* of the branches that hold one and leaves the other branches untouched;
\* the log's source entry is renamed to target, each affected branch's
\* sub-record holding a `directory` that ends in target.
C23_MvRenamesOnlyHoldingBranches ==
    LET olds == Holding(pdirs, last.name, last.subset)
    IN  ( /\ last.op = "mv"
          /\ Len(branches) > 0
          /\ last.name # last.target
          /\ olds # {}
          /\ \E b \in Segments : RunPath(b, last.name) \notin pdirs
          /\ \A p \in olds :
                /\ Join(RunDirOf(p), last.target) \notin pdirs
                /\ HasSubRecord(plog, last.name, BranchOf(p)) )
        => /\ dirs = (pdirs \ olds)
                        \cup {Join(RunDirOf(p), last.target) : p \in olds}
           /\ last.name \notin DOMAIN log
           /\ \A p \in olds :
                 /\ HasSubRecord(log, last.target, BranchOf(p))
                 /\ Name(log[last.target].m[BranchOf(p)].m["directory"].s)
                       = last.target

----------------------------------------------------------------------------
(* Properties of the log (SpecLog). *)

\* every target of the last call was the key of a run's record in the log
\* when the call began
TargetsKnown ==
    /\ last.targets # <<>>
    /\ \A t \in Range(last.targets) : t \in RunNames /\ t \in DOMAIN plog

\* C9: RunLog.rm(*targets) without a branch argument, every target a known
\* run, succeeds and deletes the targets from the top level: the key set is
\* the previous one minus the targets, every other entry keeps its value.
C9_RmWithoutBranchDeletesTargets ==
    ( /\ last.op = "log_rm"
      /\ last.branch = None
      /\ TargetsKnown )
    => /\ last.err = ""
       /\ DOMAIN log = DOMAIN plog \ Range(last.targets)
       /\ \A k \in DOMAIN log : log[k] = plog[k]

\* C10 as stated: RunLog.rm(*targets, branch=b), b a configured branch and
\* every target known, leaves none of the targets a key of the log.
C10_RmWithBranchDeletesTargets ==
    ( /\ last.op = "log_rm"
      /\ last.branch \in Range(branches)
      /\ TargetsKnown )
    => \A t \in Range(last.targets) : t \notin DOMAIN log

\* C10 amended: RunLog.rm(*targets, branch=b), b a configured branch and
\* every target a known run, returns normally and keeps every target a key
\* of the log: its record is the previous record without the sub-record of
\* b, and every other entry keeps its value.
C10_RmWithBranchStripsBranch ==
    ( /\ last.op = "log_rm"
      /\ last.branch \in Range(branches)
      /\ TargetsKnown )
    => /\ last.err = ""
       /\ DOMAIN log = DOMAIN plog
       /\ \A k \in DOMAIN log :
             IF k \in Range(last.targets)
             THEN /\ IsMap(log[k])
                  /\ DOMAIN log[k].m = DOMAIN plog[k].m \ {last.branch}
                  /\ \A x \in DOMAIN log[k].m : log[k].m[x] = plog[k].m[x]
             ELSE log[k] = plog[k]

\* C10: a branch-scoped rm of a run that had a sub-record for that branch
\* and one for another branch has returned
C10_Witness ==
    /\ last.op = "log_rm"
    /\ last.branch \in Range(branches)
    /\ last.err = ""
    /\ TargetsKnown
    /\ \E t \in Range(last.targets) :
          /\ last.branch \in DOMAIN plog[t].m
          /\ DOMAIN plog[t].m # {last.branch}

\* the last call was a RunLog.rm that fails validation: a target is no key
\* of the log, or a branch is given that is not configured
RmInvalid ==
    /\ last.op = "log_rm"
    /\ \/ \E t \in Range(last.targets) : t \notin DOMAIN plog
       \/ (last.branch # None /\ last.branch \notin Range(branches))

C12_AppendToUnknownRunFails ==
    (last.op = "log_append" /\ last.target \notin DOMAIN plog)
    => (last.err = "LogKeyError" /\ log = plog)

\* C12: an append to an unknown run was refused on a log that holds
\* another run
C12_Witness ==
    /\ last.op = "log_append"
    /\ last.target \notin DOMAIN plog
    /\ last.err = "LogKeyError"
    /\ \E n \in RunNames : n \in DOMAIN plog

\* the record new is the record old with its `directory` moved to the
\* sibling path named target and every other key as it was
Renamed(old, new, target) ==
    /\ IsMap(old) /\ IsMap(new)
    /\ DOMAIN new.m = DOMAIN old.m
    /\ \A x \in DOMAIN old.m :
          IF x = "directory"
          THEN /\ Name(new.m[x].s) = target
               /\ Parent(new.m[x].s) = Parent(old.m[x].s)
          ELSE new.m[x] = old.m[x]

\* C13: RunLog.mv(a, b) with a the key of a run's record and b no key of
\* the log leaves the log without key a and with key b; in an unbranched
\* project b's record is a's former record with the final segment of
\* `directory` replaced by b.
C13_MvRenamesEntry ==
    ( /\ last.op = "log_mv"
      /\ last.name \in RunNames \cap DOMAIN plog
      /\ last.target \notin DOMAIN plog )
    => /\ last.name \notin DOMAIN log
       /\ last.target \in DOMAIN log
       /\ (Len(branches) = 0
             => Renamed(plog[last.name], log[last.target], last.target))

\* C14: RunLog.create(name) with no source, for a name that is no key of
\* the log, returns normally; afterwards reading name yields the empty
\* mapping {} and every entry the log had before keeps its value.
C14_CreateStoresEmptyRecord ==
    ( /\ last.op = "log_create"
      /\ last.value = NoSource
      /\ last.name \notin DOMAIN plog )
    => /\ last.err = ""
       /\ last.name \in DOMAIN log
       /\ log[last.name] = Map(EmptyMap)
       /\ \A k \in DOMAIN plog : k \in DOMAIN log /\ log[k] = plog[k]

\* C14: a record was created without a source in a log that holds another
\* run
C14_Witness ==
    /\ last.op = "log_create"
    /\ last.value = NoSource
    /\ last.name \notin DOMAIN plog
    /\ last.name \in DOMAIN log
    /\ \E n \in RunNames : n \in DOMAIN plog

\* C15: RunLog.create(key, source) with source a file path sets the entry
\* of key to the mapping parsed from the file: exactly the file's keys and
\* values, nothing from the rest of the log.
C15_CreateFromFileStoresFileContent ==
    (last.op = "log_create" /\ last.value.t = "file")
    => /\ last.name \in DOMAIN log
       /\ log[last.name] = Map(last.value.v)

\* the last call was a RunLog.mv that returned normally
MvReturned == last.op = "log_mv" /\ last.err = ""

\* C24: a RunLog.mv(source, target) call that returns normally changes only
\* the entries of source and target: every entry whose key is neither has
\* the value it had before and no other key appears, also when target was
\* a key of the log already; target then holds the record made from
\* source's.
C24_MvChangesOnlySourceAndTarget ==
    MvReturned
    => /\ DOMAIN log = (DOMAIN plog \ {last.name}) \cup {last.target}
       /\ \A k \in DOMAIN plog \ {last.name, last.target} : log[k] = plog[k]
       /\ IF Len(branches) = 0
          THEN Renamed(plog[last.name], log[last.target], last.target)
          ELSE /\ DOMAIN log[last.target].m = Range(branches)
               /\ \A b \in Range(branches) :
                     Renamed(plog[last.name].m[b], log[last.target].m[b],
                             last.target)

\* C24: an mv has returned whose target was a key of the log already, with
\* a record the call replaced
C24_Witness ==
    /\ MvReturned
    /\ last.target # last.name
    /\ last.target \in DOMAIN plog
    /\ log[last.target] # plog[last.target]

----------------------------------------------------------------------------
(* Properties of construction and the registry (SpecProjects). *)

\* the last call constructed a Project on a root that was on disk
Reopened == last.op = "open" /\ last.existed

\* C16: after any sequence of creations at distinct roots, re-openings and
\* removals, re-opening a project whose root is on disk by path alone
\* succeeds and recovers the attributes (branches, config, output, rundir,
\* logstem) it was created with.
C16_ReopenRecoversIdentity ==
    (Reopened /\ last.kwargs = NoKwargs)
    => /\ last.err = ""
       /\ last.attrs = projects[last.path]

\* C17: re-opening an existing project leaves every run entry of its log
\* unchanged.
C17_ReopenKeepsRunEntries ==
    (Reopened /\ last.path = root)
    => \A n \in RunNames :
          n \in DOMAIN plog => (n \in DOMAIN log /\ log[n] = plog[n])

\* C18: immediately after a project is created its log is empty: it has
\* length 0.
C18_NewLogIsEmpty ==
    ( /\ last.op = "open"
      /\ ~last.existed
      /\ last.err = ""
      /\ last.path = root )
    => Cardinality(DOMAIN log) = 0

\* C22: constructing a Project with keyword arguments on a root that is on
\* disk raises ProjectExistsError and changes nothing: the registry, the
\* roots, the directory tree and the log are as before the call.
C22_ExistingRootWithKwargsIsRefused ==
    [][ (last'.op = "open" /\ last'.existed /\ last'.kwargs # NoKwargs)
        => /\ last'.err = "ProjectExistsError"
           /\ UNCHANGED <<database, projects, branches, dirs, files, log>>
      ]_vars

\* C22: a constructor call with keyword arguments was refused on the root
\* of a project whose log holds a run
C22_Witness ==
    /\ Reopened
    /\ last.kwargs # NoKwargs
    /\ last.path = root
    /\ last.err = "ProjectExistsError"
    /\ \E n \in RunNames : n \in DOMAIN log

----------------------------------------------------------------------------
(* Properties of a run and its exit codes (SpecRun). *)

\* the last call was a Project.run that returned, for a name that was new
\* to the log and to the tree
FreshRunReturned ==
    /\ last.op = "run"
    /\ last.err = ""
    /\ last.name \notin DOMAIN plog
    /\ ~HasDirectory(pdirs, last.name)

\* C19: in a branched project, when Project.run(config, name) with a fresh
\* name returns, then for every selected branch the run directory exists
\* and the log entry of name holds a sub-record keyed by that branch whose
\* `directory` is that run directory, whatever the exit code of each
\* branch's process: a non-zero exit code in one branch does not keep the
\* remaining branches from being processed and logged.
C19_RunLogsEveryBranchWhateverExitCode ==
    (FreshRunReturned /\ Len(branches) > 0)
    => \A p \in Selected(last.name, last.subset) :
          /\ p \in dirs
          /\ HasSubRecord(log, last.name, BranchOf(p))
          /\ log[last.name].m[BranchOf(p)].m["directory"] = Str(p)

\* C19: a run over two branches has returned whose first process exited
\* with a non-zero code
C19_Witness ==
    /\ FreshRunReturned
    /\ Len(branches) > 0
    /\ Cardinality(Selected(last.name, last.subset)) = 2
    /\ 1 \in last.warned

\* C20: in an unbranched project, after Project.run(config, name) returns,
\* the log record of name is a flat mapping whose key `directory` holds the
\* path of the run directory <root>/<rundir>/<name>.
C20_UnbranchedRecordIsFlat ==
    ( /\ last.op = "run"
      /\ last.err = ""
      /\ Len(branches) = 0
      /\ last.subset = {} )
    => /\ last.name \in DOMAIN log
       /\ DirectoryErr(log[last.name]) = ""
       /\ log[last.name].m["directory"] = Str(RunPath("", last.name))

----------------------------------------------------------------------------
(* Properties of the order of the steps of a call (SpecSteps). *)

\* C2: every lifecycle operation updates the filesystem first and the log
\* second, so if execution stops between two steps of a call that began
\* with every logged run having a directory, no log entry is left for a run
\* name that has no directory (the only inconsistency is a directory with
\* no log entry).
C2_StoppedCallLeavesNoEntryWithoutDirectory ==
    (frame.op # "idle" /\ LogHasDirectories(pdirs, plog))
    => LogHasDirectories(dirs, log)

====
